---- MODULE Spec2Model ----
(***************************************************************************)
(* Requirement Validator API (src/main.py).                                *)
(*                                                                         *)
(* One AdvancedRequirementValidator is built when the module is imported;  *)
(* POST /validate-requirement runs validate_requirement on it.  The model  *)
(* follows validate_requirement statement group by statement group, for a  *)
(* set of calls in flight, with the lists of a report kept on a heap so    *)
(* that aliasing between reports is visible.                               *)
(*                                                                         *)
(* Text is a sequence of Unicode code points.  The alphabet is Latin-1     *)
(* (code points below 256) plus the combining diacritical marks            *)
(* U+0300..U+036F, which is what the rule tables and NFD of Latin-1 use.   *)
(***************************************************************************)
EXTENDS Integers, Sequences, FiniteSets, TLC

(***************************************************************************)
(* Bounds of the model.                                                    *)
(***************************************************************************)
\* A submitted text is the concatenation of at most MaxPieces pieces.
MaxPieces == 2

\* Number of calls that can be in flight at once in SpecConc.
NumCalls == 2

(***************************************************************************)
(* Rule tables and message texts, as code points.                          *)
(***************************************************************************)
\* self.weak_words as the constructor sets it (precomposed accents, as in the source file)
WEAK_WORDS ==
    << <<97, 108, 103, 111>>,  \* "algo"
       <<97, 108, 103, 250, 110>>,  \* "algún"
       <<97, 108, 103, 117, 110, 111, 115>>,  \* "algunos"
       <<116, 97, 108, 32, 118, 101, 122>>,  \* "tal vez"
       <<113, 117, 105, 122, 225, 115>>,  \* "quizás"
       <<112, 111, 100, 114, 237, 97>>,  \* "podría"
       <<97, 112, 114, 111, 120, 105, 109, 97, 100, 97, 109, 101, 110, 116, 101>>,  \* "aproximadamente"
       <<109, 225, 115, 32, 111, 32, 109, 101, 110, 111, 115>>,  \* "más o menos"
       <<99, 114, 101, 111, 32, 113, 117, 101>>,  \* "creo que"
       <<112, 97, 114, 101, 99, 101>>  \* "parece"
    >>

\* self.functional_keywords as the constructor sets it
FUNCTIONAL_KEYWORDS ==
    << <<100, 101, 98, 101>>,  \* "debe"
       <<100, 101, 98, 101, 114, 237, 97>>,  \* "debería"
       <<116, 105, 101, 110, 101, 32, 113, 117, 101>>,  \* "tiene que"
       <<112, 101, 114, 109, 105, 116, 105, 114>>,  \* "permitir"
       <<103, 101, 115, 116, 105, 111, 110, 97, 114>>,  \* "gestionar"
       <<99, 97, 108, 99, 117, 108, 97, 114>>,  \* "calcular"
       <<109, 111, 115, 116, 114, 97, 114>>,  \* "mostrar"
       <<114, 101, 103, 105, 115, 116, 114, 97, 114>>,  \* "registrar"
       <<103, 101, 110, 101, 114, 97, 114>>  \* "generar"
    >>

\* self.non_functional_keywords as the constructor sets it
NON_FUNCTIONAL_KEYWORDS ==
    << <<114, 101, 110, 100, 105, 109, 105, 101, 110, 116, 111>>,  \* "rendimiento"
       <<115, 101, 103, 117, 114, 105, 100, 97, 100>>,  \* "seguridad"
       <<101, 115, 99, 97, 108, 97, 98, 105, 108, 105, 100, 97, 100>>,  \* "escalabilidad"
       <<100, 105, 115, 112, 111, 110, 105, 98, 105, 108, 105, 100, 97, 100>>,  \* "disponibilidad"
       <<117, 115, 97, 98, 105, 108, 105, 100, 97, 100>>,  \* "usabilidad"
       <<116, 105, 101, 109, 112, 111, 32, 100, 101, 32, 114, 101, 115, 112, 117, 101, 115, 116, 97>>,  \* "tiempo de respuesta"
       <<110, 250, 109, 101, 114, 111, 32, 100, 101, 32, 117, 115, 117, 97, 114, 105, 111, 115>>  \* "número de usuarios"
    >>

\* metrics_indicators, the list literal of the measurability check
metrics_indicators ==
    << <<109, 225, 120, 105, 109, 111>>,  \* "máximo"
       <<109, 237, 110, 105, 109, 111>>,  \* "mínimo"
       <<97, 108, 32, 109, 101, 110, 111, 115>>,  \* "al menos"
       <<110, 111, 32, 109, 225, 115, 32, 100, 101>>,  \* "no más de"
       <<37>>  \* "%"
    >>

\* "El requerimiento es demasiado corto para ser significativo."
LENGTH_DESCRIPTION ==
    <<69, 108, 32, 114, 101, 113, 117, 101, 114, 105, 109, 105, 101, 110, 116, 111, 32, 101,
     115, 32, 100, 101, 109, 97, 115, 105, 97, 100, 111, 32, 99, 111, 114, 116, 111, 32,
     112, 97, 114, 97, 32, 115, 101, 114, 32, 115, 105, 103, 110, 105, 102, 105, 99, 97,
     116, 105, 118, 111, 46>>

\* "Expanda su requerimiento para incluir más detalles específicos."
LENGTH_SUGGESTION ==
    <<69, 120, 112, 97, 110, 100, 97, 32, 115, 117, 32, 114, 101, 113, 117, 101, 114, 105,
     109, 105, 101, 110, 116, 111, 32, 112, 97, 114, 97, 32, 105, 110, 99, 108, 117, 105,
     114, 32, 109, 225, 115, 32, 100, 101, 116, 97, 108, 108, 101, 115, 32, 101, 115, 112,
     101, 99, 237, 102, 105, 99, 111, 115, 46>>

\* "Se encontraron palabras ambiguas: "
AMBIGUITY_PREFIX ==
    <<83, 101, 32, 101, 110, 99, 111, 110, 116, 114, 97, 114, 111, 110, 32, 112, 97, 108, 97,
     98, 114, 97, 115, 32, 97, 109, 98, 105, 103, 117, 97, 115, 58, 32>>

\* "Reemplace palabras vagas con términos precisos y concretos."
AMBIGUITY_SUGGESTION ==
    <<82, 101, 101, 109, 112, 108, 97, 99, 101, 32, 112, 97, 108, 97, 98, 114, 97, 115, 32,
     118, 97, 103, 97, 115, 32, 99, 111, 110, 32, 116, 233, 114, 109, 105, 110, 111, 115,
     32, 112, 114, 101, 99, 105, 115, 111, 115, 32, 121, 32, 99, 111, 110, 99, 114, 101,
     116, 111, 115, 46>>

\* "No se encontraron palabras características del tipo de requerimiento."
KEYWORDS_DESCRIPTION ==
    <<78, 111, 32, 115, 101, 32, 101, 110, 99, 111, 110, 116, 114, 97, 114, 111, 110, 32, 112,
     97, 108, 97, 98, 114, 97, 115, 32, 99, 97, 114, 97, 99, 116, 101, 114, 237, 115, 116,
     105, 99, 97, 115, 32, 100, 101, 108, 32, 116, 105, 112, 111, 32, 100, 101, 32, 114,
     101, 113, 117, 101, 114, 105, 109, 105, 101, 110, 116, 111, 46>>

\* "Incluya palabras como: "
KEYWORDS_PREFIX ==
    <<73, 110, 99, 108, 117, 121, 97, 32, 112, 97, 108, 97, 98, 114, 97, 115, 32, 99, 111,
     109, 111, 58, 32>>

\* "El requerimiento carece de verbos o sustantivos específicos."
SPECIFICITY_DESCRIPTION ==
    <<69, 108, 32, 114, 101, 113, 117, 101, 114, 105, 109, 105, 101, 110, 116, 111, 32, 99,
     97, 114, 101, 99, 101, 32, 100, 101, 32, 118, 101, 114, 98, 111, 115, 32, 111, 32,
     115, 117, 115, 116, 97, 110, 116, 105, 118, 111, 115, 32, 101, 115, 112, 101, 99,
     237, 102, 105, 99, 111, 115, 46>>

\* "Defina claramente la acción (verbo) y el objeto (sustantivo) del requerimiento."
SPECIFICITY_SUGGESTION ==
    <<68, 101, 102, 105, 110, 97, 32, 99, 108, 97, 114, 97, 109, 101, 110, 116, 101, 32, 108,
     97, 32, 97, 99, 99, 105, 243, 110, 32, 40, 118, 101, 114, 98, 111, 41, 32, 121, 32,
     101, 108, 32, 111, 98, 106, 101, 116, 111, 32, 40, 115, 117, 115, 116, 97, 110, 116,
     105, 118, 111, 41, 32, 100, 101, 108, 32, 114, 101, 113, 117, 101, 114, 105, 109,
     105, 101, 110, 116, 111, 46>>

\* "No se detectaron métricas específicas."
METRICS_DESCRIPTION ==
    <<78, 111, 32, 115, 101, 32, 100, 101, 116, 101, 99, 116, 97, 114, 111, 110, 32, 109, 233,
     116, 114, 105, 99, 97, 115, 32, 101, 115, 112, 101, 99, 237, 102, 105, 99, 97, 115,
     46>>

\* "Considere agregar métricas o criterios de aceptación medibles."
METRICS_RECOMMENDATION ==
    <<67, 111, 110, 115, 105, 100, 101, 114, 101, 32, 97, 103, 114, 101, 103, 97, 114, 32,
     109, 233, 116, 114, 105, 99, 97, 115, 32, 111, 32, 99, 114, 105, 116, 101, 114, 105,
     111, 115, 32, 100, 101, 32, 97, 99, 101, 112, 116, 97, 99, 105, 243, 110, 32, 109,
     101, 100, 105, 98, 108, 101, 115, 46>>

\* ", "
COMMA_SPACE ==
    <<44, 32>>


(***************************************************************************)
(* Python string operations used by the validator.                         *)
(***************************************************************************)
\* str.isspace() for one character of the alphabet: what strip() and split()
\* with no argument treat as whitespace.
IsSpace(c) ==
    c \in {9, 10, 11, 12, 13, 28, 29, 30, 31, 32, 133, 160}

\* str.lower() for one character of the alphabet.
LowerChar(c) ==
    IF c \in 65..90 \/ (c \in 192..222 /\ c # 215) THEN c + 32 ELSE c

\* text.lower()
lower(text) ==
    [i \in 1..Len(text) |-> LowerChar(text[i])]

\* Canonical decompositions of the Latin-1 characters (unicodedata, NFD).
NFD_TABLE ==
    (192 :> <<65, 768>>) @@ (193 :> <<65, 769>>) @@ (194 :> <<65, 770>>) @@ (195 :> <<65,
    771>>) @@ (196 :> <<65, 776>>) @@ (197 :> <<65, 778>>) @@ (199 :> <<67, 807>>) @@ (200 :>
    <<69, 768>>) @@ (201 :> <<69, 769>>) @@ (202 :> <<69, 770>>) @@ (203 :> <<69, 776>>) @@
    (204 :> <<73, 768>>) @@ (205 :> <<73, 769>>) @@ (206 :> <<73, 770>>) @@ (207 :> <<73,
    776>>) @@ (209 :> <<78, 771>>) @@ (210 :> <<79, 768>>) @@ (211 :> <<79, 769>>) @@ (212 :>
    <<79, 770>>) @@ (213 :> <<79, 771>>) @@ (214 :> <<79, 776>>) @@ (217 :> <<85, 768>>) @@
    (218 :> <<85, 769>>) @@ (219 :> <<85, 770>>) @@ (220 :> <<85, 776>>) @@ (221 :> <<89,
    769>>) @@ (224 :> <<97, 768>>) @@ (225 :> <<97, 769>>) @@ (226 :> <<97, 770>>) @@ (227 :>
    <<97, 771>>) @@ (228 :> <<97, 776>>) @@ (229 :> <<97, 778>>) @@ (231 :> <<99, 807>>) @@
    (232 :> <<101, 768>>) @@ (233 :> <<101, 769>>) @@ (234 :> <<101, 770>>) @@ (235 :> <<101,
    776>>) @@ (236 :> <<105, 768>>) @@ (237 :> <<105, 769>>) @@ (238 :> <<105, 770>>) @@ (239
    :> <<105, 776>>) @@ (241 :> <<110, 771>>) @@ (242 :> <<111, 768>>) @@ (243 :> <<111,
    769>>) @@ (244 :> <<111, 770>>) @@ (245 :> <<111, 771>>) @@ (246 :> <<111, 776>>) @@ (249
    :> <<117, 768>>) @@ (250 :> <<117, 769>>) @@ (251 :> <<117, 770>>) @@ (252 :> <<117,
    776>>) @@ (253 :> <<121, 769>>) @@ (255 :> <<121, 776>>)

\* unicodedata.normalize('NFD', c) for one character of the alphabet.
Decompose(c) ==
    IF c \in DOMAIN NFD_TABLE THEN NFD_TABLE[c] ELSE <<c>>

RECURSIVE NFD(_)
\* unicodedata.normalize('NFD', text): every character replaced by its
\* decomposition.
NFD(text) ==
    IF text = <<>> THEN <<>> ELSE Decompose(Head(text)) \o NFD(Tail(text))

\* unicodedata.category(c) = 'Mn' within the alphabet.
IsMn(c) ==
    c \in 768..879

\* normalize_text: lower-case, decompose, drop the combining marks.
normalize_text(text) ==
    SelectSeq(NFD(lower(text)), LAMBDA c : ~IsMn(c))

RECURSIVE lstrip(_)
lstrip(text) ==
    IF text # <<>> /\ IsSpace(Head(text)) THEN lstrip(Tail(text)) ELSE text

RECURSIVE rstrip(_)
rstrip(text) ==
    IF text # <<>> /\ IsSpace(text[Len(text)])
    THEN rstrip(SubSeq(text, 1, Len(text) - 1))
    ELSE text

\* text.strip()
strip(text) ==
    rstrip(lstrip(text))

RECURSIVE SplitFrom(_, _, _)
\* The words of text[i..], with word the characters of the word being read.
SplitFrom(text, i, word) ==
    IF i > Len(text)
    THEN IF word = <<>> THEN <<>> ELSE <<word>>
    ELSE IF IsSpace(text[i])
         THEN IF word = <<>>
              THEN SplitFrom(text, i + 1, <<>>)
              ELSE <<word>> \o SplitFrom(text, i + 1, <<>>)
         ELSE SplitFrom(text, i + 1, Append(word, text[i]))

\* text.split(): the maximal runs of non-whitespace characters.
split(text) ==
    SplitFrom(text, 1, <<>>)

\* needle in haystack
Contains(haystack, needle) ==
    \E i \in 0..(Len(haystack) - Len(needle)) :
        SubSeq(haystack, i + 1, i + Len(needle)) = needle

RECURSIVE join(_, _)
\* sep.join(words)
join(sep, words) ==
    IF words = <<>> THEN <<>>
    ELSE IF Len(words) = 1 THEN words[1]
    ELSE words[1] \o sep \o join(sep, Tail(words))

\* words[:n]
Slice(words, n) ==
    SubSeq(words, 1, IF Len(words) < n THEN Len(words) ELSE n)

(***************************************************************************)
(* Findings.                                                               *)
(***************************************************************************)
LengthFinding ==
    [type |-> "Longitud Insuficiente",
     description |-> LENGTH_DESCRIPTION,
     suggestion |-> LENGTH_SUGGESTION]

AmbiguityFinding(found) ==
    [type |-> "Ambigüedad",
     description |-> AMBIGUITY_PREFIX \o join(COMMA_SPACE, found),
     suggestion |-> AMBIGUITY_SUGGESTION]

KeywordsFinding(keywords) ==
    [type |-> "Ausencia de Palabras Clave",
     description |-> KEYWORDS_DESCRIPTION,
     suggestion |-> KEYWORDS_PREFIX \o join(COMMA_SPACE, Slice(keywords, 3))]

SpecificityFinding ==
    [type |-> "Falta de Especificidad",
     description |-> SPECIFICITY_DESCRIPTION,
     suggestion |-> SPECIFICITY_SUGGESTION]

MetricsSuggestion ==
    [type |-> "Medibilidad",
     description |-> METRICS_DESCRIPTION,
     recommendation |-> METRICS_RECOMMENDATION]

(***************************************************************************)
(* The statements of validate_requirement.  A report's 'errors' and        *)
(* 'suggestions' are references to list objects of the heap h; a check     *)
(* maps the report vr and the heap to the report and heap after it.        *)
(***************************************************************************)
\* A list object shared by every call, as a class-level or default-argument
\* list would be.
SharedList(c, field) ==
    <<0, field>>

\* The list object a `[]` of the report literal creates in call c: a new
\* object, distinct from every list of every other call in flight.
NewList(c, field) ==
    <<c, field>>

\* validation_result = {'original_text': requirement, 'is_valid': True,
\*                      'errors': [], 'suggestions': []}
fresh_result(c, requirement) ==
    [original_text |-> requirement,
     is_valid |-> TRUE,
     errors |-> NewList(c, "errors"),
     suggestions |-> NewList(c, "suggestions")]

\* The length check with the boundary off by one.
length_check_off_by_one(vr, h, requirement) ==
    IF Len(split(requirement)) <= 5
    THEN [vr |-> [vr EXCEPT !.is_valid = FALSE],
          heap |-> [h EXCEPT ![vr.errors] = Append(@, LengthFinding)]]
    ELSE [vr |-> vr, heap |-> h]

\* if len(requirement.split()) < 5: ...
length_check(vr, h, requirement) ==
    IF Len(split(requirement)) < 5
    THEN [vr |-> [vr EXCEPT !.is_valid = FALSE],
          heap |-> [h EXCEPT ![vr.errors] = Append(@, LengthFinding)]]
    ELSE [vr |-> vr, heap |-> h]

\* [word for word in self.weak_words if word in normalized_req]
ambiguous_words_found(words, normalized) ==
    SelectSeq(words, LAMBDA word : Contains(normalized, word))

\* The ambiguity check made to run only while no error has been recorded.
ambiguity_check_short_circuit(vr, h, normalized, words) ==
    LET found == ambiguous_words_found(words, normalized)
    IN  IF vr.is_valid /\ found # <<>>
        THEN [vr |-> [vr EXCEPT !.is_valid = FALSE],
              heap |-> [h EXCEPT ![vr.errors] = Append(@, AmbiguityFinding(found))]]
        ELSE [vr |-> vr, heap |-> h]

\* if ambiguous_words_found: ...
ambiguity_check(vr, h, normalized, words) ==
    LET found == ambiguous_words_found(words, normalized)
    IN  IF found # <<>>
        THEN [vr |-> [vr EXCEPT !.is_valid = FALSE],
              heap |-> [h EXCEPT ![vr.errors] = Append(@, AmbiguityFinding(found))]]
        ELSE [vr |-> vr, heap |-> h]

\* keywords = (self.functional_keywords if is_functional
\*             else self.non_functional_keywords)
select_keywords(is_functional, functional, non_functional) ==
    IF is_functional THEN functional ELSE non_functional

\* any(keyword in normalized_req for keyword in keywords)
has_keywords(keywords, normalized) ==
    \E i \in 1..Len(keywords) : Contains(normalized, keywords[i])

\* if not has_keywords: ...
keyword_check(vr, h, normalized, keywords) ==
    IF ~has_keywords(keywords, normalized)
    THEN [vr |-> [vr EXCEPT !.is_valid = FALSE],
          heap |-> [h EXCEPT ![vr.errors] = Append(@, KeywordsFinding(keywords))]]
    ELSE [vr |-> vr, heap |-> h]

\* The guard of the specificity check with the test of the tagger dropped.
tagger_always_used(tagger) ==
    TRUE

\* if self.nlp is not None:
tagger_available(tagger) ==
    tagger # "None"

\* verbs = [token for token in doc if token.pos_ == 'VERB']
verbs(d) ==
    SelectSeq(d, LAMBDA pos : pos = "VERB")

\* nouns = [token for token in doc if token.pos_ == 'NOUN']
nouns(d) ==
    SelectSeq(d, LAMBDA pos : pos = "NOUN")

\* if len(verbs) == 0 or len(nouns) < 2: ...
specificity_check(vr, h, d) ==
    IF Len(verbs(d)) = 0 \/ Len(nouns(d)) < 2
    THEN [vr |-> [vr EXCEPT !.is_valid = FALSE],
          heap |-> [h EXCEPT ![vr.errors] = Append(@, SpecificityFinding)]]
    ELSE [vr |-> vr, heap |-> h]

\* any(metric in requirement.lower() for metric in metrics_indicators)
has_metrics(requirement) ==
    \E i \in 1..Len(metrics_indicators) :
        Contains(lower(requirement), metrics_indicators[i])

\* The measurability check made to match on the accent-stripped text.
metrics_check_normalized(vr, h, requirement, is_functional) ==
    IF ~(\E i \in 1..Len(metrics_indicators) :
            Contains(normalize_text(requirement), metrics_indicators[i]))
       /\ is_functional
    THEN [vr |-> vr,
          heap |-> [h EXCEPT ![vr.suggestions] = Append(@, MetricsSuggestion)]]
    ELSE [vr |-> vr, heap |-> h]

\* The measurability check made to clear is_valid like the error checks.
metrics_check_flags_invalid(vr, h, requirement, is_functional) ==
    IF ~has_metrics(requirement) /\ is_functional
    THEN [vr |-> [vr EXCEPT !.is_valid = FALSE],
          heap |-> [h EXCEPT ![vr.suggestions] = Append(@, MetricsSuggestion)]]
    ELSE [vr |-> vr, heap |-> h]

\* if not has_metrics and is_functional: ...
metrics_check(vr, h, requirement, is_functional) ==
    IF ~has_metrics(requirement) /\ is_functional
    THEN [vr |-> vr,
          heap |-> [h EXCEPT ![vr.suggestions] = Append(@, MetricsSuggestion)]]
    ELSE [vr |-> vr, heap |-> h]

\* The report as the response carries it: the dict with its lists' contents.
serialize(vr, h) ==
    [original_text |-> vr.original_text,
     is_valid |-> vr.is_valid,
     errors |-> h[vr.errors],
     suggestions |-> h[vr.suggestions]]

\* return result, in the handler
ok_response(vr, h) ==
    [status_code |-> 200, body |-> serialize(vr, h)]

\* A handler that swallows the fault and answers with success.
absorbed_response(e) ==
    [status_code |-> 200, detail |-> e]

\* raise HTTPException(status_code=500, detail=str(e))
error_response(e) ==
    [status_code |-> 500, detail |-> e]

(***************************************************************************)
(* Inputs.                                                                 *)
(***************************************************************************)
\* " "
P_SP ==
    <<32>>

\* "uno dos\ttres  cuatro"
P_CUATRO ==
    <<117, 110, 111, 32, 100, 111, 115, 9, 116, 114, 101, 115, 32, 32, 99, 117, 97, 116, 114,
     111>>

\* " cinco"
P_CINCO ==
    <<32, 99, 105, 110, 99, 111>>

\* "quizás"
P_QUIZAS_ACC ==
    <<113, 117, 105, 122, 225, 115>>

\* " quizas"
P_QUIZAS ==
    <<32, 113, 117, 105, 122, 97, 115>>

\* "QUIZÁS"
P_QUIZAS_UP ==
    <<81, 85, 73, 90, 193, 83>>

\* " Algo"
P_ALGO ==
    <<32, 65, 108, 103, 111>>

\* " tal vez"
P_TALVEZ ==
    <<32, 116, 97, 108, 32, 118, 101, 122>>

\* " Debería"
P_DEBERIA ==
    <<32, 68, 101, 98, 101, 114, 237, 97>>

\* " número de usuarios"
P_NUMERO ==
    <<32, 110, 250, 109, 101, 114, 111, 32, 100, 101, 32, 117, 115, 117, 97, 114, 105, 111,
     115>>

\* " SEGURIDAD"
P_SEGURIDAD ==
    <<32, 83, 69, 71, 85, 82, 73, 68, 65, 68>>

\* " MÁXIMO"
P_MAXIMO_UP ==
    <<32, 77, 193, 88, 73, 77, 79>>

\* " maximo"
P_MAXIMO_PLAIN ==
    <<32, 109, 97, 120, 105, 109, 111>>

\* "%"
P_PCT ==
    <<37>>

Pieces ==
    {P_SP, P_CUATRO, P_CINCO, P_QUIZAS_ACC, P_QUIZAS, P_QUIZAS_UP, P_ALGO, P_TALVEZ, P_DEBERIA, P_NUMERO, P_SEGURIDAD, P_MAXIMO_UP, P_MAXIMO_PLAIN, P_PCT}

RECURSIVE TextsUpTo(_)
\* The concatenations of at most n pieces.
TextsUpTo(n) ==
    IF n = 0 THEN {<<>>}
    ELSE LET S == TextsUpTo(n - 1) IN S \cup {t \o p : t \in S, p \in Pieces}

Texts ==
    TextsUpTo(MaxPieces)

\* The bodies POST /validate-requirement is called with.
Requests ==
    [requirement : Texts, is_functional : BOOLEAN]

\* The bodies of the calls that run concurrently in SpecConc.
ConcRequests ==
    {[requirement |-> P_CUATRO, is_functional |-> TRUE],
     [requirement |-> P_TALVEZ \o P_NUMERO, is_functional |-> FALSE]}

\* What self.nlp(requirement) can answer: the part-of-speech tags of the
\* tokens of a document.  The tagger is spaCy's; its answer is an input.
TaggerDocs ==
    {<<>>,
     <<"NOUN", "NOUN">>,
     <<"DET", "NOUN", "VERB">>,
     <<"DET", "NOUN", "VERB", "NOUN">>}

\* str(e) of what self.nlp(requirement) can raise.
TaggerFaults ==
    {"[E088] Text exceeds maximum length", "tagger fault"}

(***************************************************************************)
(* State.                                                                  *)
(***************************************************************************)
VARIABLES
    nlp,                      \* validator.nlp: "None" or the loaded model
    load_attempts,            \* number of spacy.load calls made so far
    weak_words,               \* validator.weak_words
    functional_keywords,      \* validator.functional_keywords
    non_functional_keywords,  \* validator.non_functional_keywords
    heap,                     \* the list objects of the reports in flight
    pc,                       \* per call: where it stands
    request,                  \* per call: the body it was called with
    requirement,              \* per call: local requirement
    normalized_req,           \* per call: local normalized_req
    validation_result,        \* per call: local validation_result
    doc,                      \* per call: local doc, as its tokens' pos_
    tag_attempts,             \* per call: times self.nlp was invoked
    exception,                \* per call: str(e) of the exception raised
    response                  \* per call: the response of the handler

tables == <<weak_words, functional_keywords, non_functional_keywords>>

shared == <<nlp, load_attempts, tables>>

locals == <<requirement, normalized_req, validation_result, doc, tag_attempts,
            exception>>

vars == <<shared, heap, pc, request, locals, response>>

NoRequest == [requirement |-> <<>>, is_functional |-> FALSE]

NoResult == [original_text |-> <<>>, is_valid |-> TRUE,
             errors |-> <<0, "none">>, suggestions |-> <<0, "none">>]

NoResponse == [status_code |-> 0]

\* AdvancedRequirementValidator.__init__ has run (validator = ...), with
\* spacy.load having succeeded or thrown, and no call is in flight.
InitCalls(calls) ==
    /\ nlp \in {"None", "es_core_news_sm"}
    /\ load_attempts = 1
    /\ weak_words = WEAK_WORDS
    /\ functional_keywords = FUNCTIONAL_KEYWORDS
    /\ non_functional_keywords = NON_FUNCTIONAL_KEYWORDS
    /\ heap = <<>>
    /\ pc = [c \in calls |-> "idle"]
    /\ request = [c \in calls |-> NoRequest]
    /\ requirement = [c \in calls |-> <<>>]
    /\ normalized_req = [c \in calls |-> <<>>]
    /\ validation_result = [c \in calls |-> NoResult]
    /\ doc = [c \in calls |-> <<>>]
    /\ tag_attempts = [c \in calls |-> 0]
    /\ exception = [c \in calls |-> ""]
    /\ response = [c \in calls |-> NoResponse]

Init ==
    InitCalls({1})

InitConc ==
    InitCalls(1..NumCalls)

(***************************************************************************)
(* Actions: one call c of POST /validate-requirement.                      *)
(***************************************************************************)
\* The handler is entered with a request body.
Receive(c, bodies) ==
    /\ pc[c] = "idle"
    /\ \E r \in bodies : request' = [request EXCEPT ![c] = r]
    /\ pc' = [pc EXCEPT ![c] = "preprocess"]
    /\ UNCHANGED <<shared, heap, locals, response>>

\* requirement = requirement.strip(); normalized_req = ...;
\* validation_result = {...}
Preprocess(c) ==
    /\ pc[c] = "preprocess"
    /\ LET stripped == strip(request[c].requirement)
           vr == fresh_result(c, stripped)
       IN  /\ requirement' = [requirement EXCEPT ![c] = stripped]
           /\ normalized_req' = [normalized_req EXCEPT ![c] = normalize_text(stripped)]
           /\ validation_result' = [validation_result EXCEPT ![c] = vr]
           /\ heap' = (vr.errors :> <<>>) @@ (vr.suggestions :> <<>>) @@ heap
    /\ pc' = [pc EXCEPT ![c] = "length"]
    /\ UNCHANGED <<shared, request, doc, tag_attempts, exception, response>>

\* One check: the report and the heap become what the check makes of them.
Checked(c, after, next) ==
    /\ validation_result' = [validation_result EXCEPT ![c] = after.vr]
    /\ heap' = after.heap
    /\ pc' = [pc EXCEPT ![c] = next]

LengthCheck(c) ==
    /\ pc[c] = "length"
    /\ Checked(c, length_check(validation_result[c], heap, requirement[c]),
               "ambiguity")
    /\ UNCHANGED <<shared, request, requirement, normalized_req, doc,
                   tag_attempts, exception, response>>

AmbiguityCheck(c) ==
    /\ pc[c] = "ambiguity"
    /\ Checked(c, ambiguity_check(validation_result[c], heap, normalized_req[c],
                                  weak_words),
               "keywords")
    /\ UNCHANGED <<shared, request, requirement, normalized_req, doc,
                   tag_attempts, exception, response>>

KeywordCheck(c) ==
    /\ pc[c] = "keywords"
    /\ Checked(c, keyword_check(validation_result[c], heap, normalized_req[c],
                                select_keywords(request[c].is_functional,
                                                functional_keywords,
                                                non_functional_keywords)),
               "specificity")
    /\ UNCHANGED <<shared, request, requirement, normalized_req, doc,
                   tag_attempts, exception, response>>

\* self.nlp is None: the specificity check is skipped.
SkipSpecificity(c) ==
    /\ pc[c] = "specificity"
    /\ ~tagger_available(nlp)
    /\ pc' = [pc EXCEPT ![c] = "metrics"]
    /\ UNCHANGED <<shared, heap, request, locals, response>>

\* doc = self.nlp(requirement) answers, and the specificity test runs.
SpecificityCheck(c) ==
    /\ pc[c] = "specificity"
    /\ tagger_available(nlp)
    /\ \E d \in TaggerDocs :
        /\ doc' = [doc EXCEPT ![c] = d]
        /\ Checked(c, specificity_check(validation_result[c], heap, d), "metrics")
    /\ tag_attempts' = [tag_attempts EXCEPT ![c] = @ + 1]
    /\ UNCHANGED <<shared, request, requirement, normalized_req, exception,
                   response>>

\* doc = self.nlp(requirement) raises: validate_requirement is left with
\* the exception, nothing after line 94 runs.
TaggerRaises(c) ==
    /\ pc[c] = "specificity"
    /\ tagger_available(nlp)
    /\ \E e \in TaggerFaults : exception' = [exception EXCEPT ![c] = e]
    /\ tag_attempts' = [tag_attempts EXCEPT ![c] = @ + 1]
    /\ pc' = [pc EXCEPT ![c] = "raised"]
    /\ UNCHANGED <<shared, heap, request, requirement, normalized_req,
                   validation_result, doc, response>>

MetricsCheck(c) ==
    /\ pc[c] = "metrics"
    /\ Checked(c, metrics_check(validation_result[c], heap, requirement[c],
                                request[c].is_functional),
               "return")
    /\ UNCHANGED <<shared, request, requirement, normalized_req, doc,
                   tag_attempts, exception, response>>

\* return validation_result, and the handler's return result.
Return(c) ==
    /\ pc[c] = "return"
    /\ response' = [response EXCEPT ![c] = ok_response(validation_result[c], heap)]
    /\ pc' = [pc EXCEPT ![c] = "done"]
    /\ UNCHANGED <<shared, heap, request, locals>>

\* except Exception as e: raise HTTPException(status_code=500, detail=str(e))
HandleException(c) ==
    /\ pc[c] = "raised"
    /\ response' = [response EXCEPT ![c] = error_response(exception[c])]
    /\ pc' = [pc EXCEPT ![c] = "done"]
    /\ UNCHANGED <<shared, heap, request, locals>>

\* The response has been sent: the call's frame and its report are gone.
Complete(c) ==
    /\ pc[c] = "done"
    /\ pc' = [pc EXCEPT ![c] = "idle"]
    /\ request' = [request EXCEPT ![c] = NoRequest]
    /\ requirement' = [requirement EXCEPT ![c] = <<>>]
    /\ normalized_req' = [normalized_req EXCEPT ![c] = <<>>]
    /\ validation_result' = [validation_result EXCEPT ![c] = NoResult]
    /\ doc' = [doc EXCEPT ![c] = <<>>]
    /\ tag_attempts' = [tag_attempts EXCEPT ![c] = 0]
    /\ exception' = [exception EXCEPT ![c] = ""]
    /\ response' = [response EXCEPT ![c] = NoResponse]
    /\ heap' = [r \in DOMAIN heap \ {validation_result[c].errors,
                                     validation_result[c].suggestions} |-> heap[r]]
    /\ UNCHANGED shared

\* One call at a time, on every text of Texts.
Next ==
    \/ \E c \in DOMAIN pc : Receive(c, Requests)
    \/ \E c \in DOMAIN pc : Preprocess(c)
    \/ \E c \in DOMAIN pc : LengthCheck(c)
    \/ \E c \in DOMAIN pc : AmbiguityCheck(c)
    \/ \E c \in DOMAIN pc : KeywordCheck(c)
    \/ \E c \in DOMAIN pc : SkipSpecificity(c)
    \/ \E c \in DOMAIN pc : SpecificityCheck(c)
    \/ \E c \in DOMAIN pc : TaggerRaises(c)
    \/ \E c \in DOMAIN pc : MetricsCheck(c)
    \/ \E c \in DOMAIN pc : Return(c)
    \/ \E c \in DOMAIN pc : HandleException(c)
    \/ \E c \in DOMAIN pc : Complete(c)

Spec ==
    Init /\ [][Next]_vars

\* NumCalls calls in flight, their steps interleaved.
NextConc ==
    \/ \E c \in DOMAIN pc : Receive(c, ConcRequests)
    \/ \E c \in DOMAIN pc : Preprocess(c)
    \/ \E c \in DOMAIN pc : LengthCheck(c)
    \/ \E c \in DOMAIN pc : AmbiguityCheck(c)
    \/ \E c \in DOMAIN pc : KeywordCheck(c)
    \/ \E c \in DOMAIN pc : SkipSpecificity(c)
    \/ \E c \in DOMAIN pc : SpecificityCheck(c)
    \/ \E c \in DOMAIN pc : TaggerRaises(c)
    \/ \E c \in DOMAIN pc : MetricsCheck(c)
    \/ \E c \in DOMAIN pc : Return(c)
    \/ \E c \in DOMAIN pc : HandleException(c)
    \/ \E c \in DOMAIN pc : Complete(c)

SpecConc ==
    InitConc /\ [][NextConc]_vars

(***************************************************************************)
(* validate_requirement run alone, from its first statement to its last,   *)
(* on the tables of the constructor: the report call c returns for body r  *)
(* when the tagger (if there is one) answers d.                            *)
(***************************************************************************)
IsolatedReport(c, r, tagger, d) ==
    LET stripped == strip(r.requirement)
        normalized == normalize_text(stripped)
        vr0 == fresh_result(c, stripped)
        h0 == (vr0.errors :> <<>>) @@ (vr0.suggestions :> <<>>)
        s1 == length_check(vr0, h0, stripped)
        s2 == ambiguity_check(s1.vr, s1.heap, normalized, WEAK_WORDS)
        s3 == keyword_check(s2.vr, s2.heap, normalized,
                            select_keywords(r.is_functional, FUNCTIONAL_KEYWORDS,
                                            NON_FUNCTIONAL_KEYWORDS))
        s4 == IF tagger_available(tagger)
              THEN specificity_check(s3.vr, s3.heap, d)
              ELSE s3
        s5 == metrics_check(s4.vr, s4.heap, stripped, r.is_functional)
    IN  serialize(s5.vr, s5.heap)

(***************************************************************************)
(* Vocabulary of the properties.                                           *)
(***************************************************************************)
\* Call c has been answered with a report.
Returned(c) ==
    pc[c] = "done" /\ response[c].status_code = 200

Report(c) ==
    response[c].body

Types(findings) ==
    [i \in 1..Len(findings) |-> findings[i].type]

HasFinding(findings, t) ==
    \E i \in 1..Len(findings) : findings[i].type = t

\* Number of words of a text: the positions where a run of non-whitespace
\* characters begins.
WordCount(text) ==
    Cardinality({i \in 1..Len(text) :
                    ~IsSpace(text[i]) /\ (i = 1 \/ IsSpace(text[i - 1]))})

\* word occurs in text, compared without case and without accents.
OccursInsensitive(text, word) ==
    Contains(normalize_text(text), normalize_text(word))

ErrorOrder ==
    <<"Longitud Insuficiente", "Ambigüedad", "Ausencia de Palabras Clave",
      "Falta de Especificidad">>

(***************************************************************************)
(* Properties.                                                             *)
(***************************************************************************)
\* C1: a returned report has is_valid = TRUE exactly when its errors list is
\* empty, whatever its suggestions list holds.
C1_ValidIffNoErrors ==
    \A c \in DOMAIN pc :
        Returned(c) => (Report(c).is_valid <=> Report(c).errors = <<>>)

\* A valid report that carries a suggestion has been returned.
C1_Witness ==
    \E c \in DOMAIN pc :
        /\ Returned(c)
        /\ Report(c).is_valid
        /\ Report(c).suggestions # <<>>

\* C2: original_text of a returned report is the input string exactly as it
\* was submitted, leading and trailing whitespace included.
C2_OriginalTextUnmodified ==
    \A c \in DOMAIN pc :
        Returned(c) => Report(c).original_text = request[c].requirement

\* C3: a requirement that contains a weak word of the table in any accent or
\* case variant gets an 'Ambigüedad' error.
C3_AmbiguityAccentCaseSymmetric ==
    \A c \in DOMAIN pc :
        Returned(c) =>
            \A i \in 1..Len(weak_words) :
                OccursInsensitive(request[c].requirement, weak_words[i])
                    => HasFinding(Report(c).errors, "Ambigüedad")

\* C4: 'Ausencia de Palabras Clave' is recorded exactly when no keyword of
\* the selected table occurs in the text, compared without case and accents.
C4_KeywordErrorIffNoKeyword ==
    \A c \in DOMAIN pc :
        Returned(c) =>
            LET keywords == select_keywords(request[c].is_functional,
                                            functional_keywords,
                                            non_functional_keywords)
            IN  HasFinding(Report(c).errors, "Ausencia de Palabras Clave")
                    <=> ~(\E i \in 1..Len(keywords) :
                            OccursInsensitive(request[c].requirement, keywords[i]))

\* C5: a returned report holds a 'Medibilidad' suggestion exactly when
\* is_functional is true and no metric indicator occurs in the lower-cased
\* text; for is_functional = false the suggestions list is empty.
C5_MeasurabilityIffFunctionalNoMetric ==
    \A c \in DOMAIN pc :
        Returned(c) =>
            LET text == request[c].requirement
                metric == \E i \in 1..Len(metrics_indicators) :
                              Contains(lower(text), metrics_indicators[i])
            IN  /\ HasFinding(Report(c).suggestions, "Medibilidad")
                       <=> (request[c].is_functional /\ ~metric)
                /\ ~request[c].is_functional => Report(c).suggestions = <<>>
                /\ Len(Report(c).suggestions) <= 1

\* A functional requirement that spells a metric word without its accent has
\* been answered with the suggestion.
C5_Witness ==
    \E c \in DOMAIN pc :
        /\ Returned(c)
        /\ request[c].is_functional
        /\ Contains(request[c].requirement, P_MAXIMO_PLAIN)
        /\ HasFinding(Report(c).suggestions, "Medibilidad")

\* C6: a returned report holds a 'Longitud Insuficiente' error exactly when
\* the text has fewer than 5 words, whatever the other checks record.
C6_LengthBoundary ==
    \A c \in DOMAIN pc :
        Returned(c) =>
            (HasFinding(Report(c).errors, "Longitud Insuficiente")
                <=> WordCount(request[c].requirement) < 5)

\* A text of exactly 5 words has been answered with errors, none of them
\* the length error.
C6_Witness ==
    \E c \in DOMAIN pc :
        /\ Returned(c)
        /\ WordCount(request[c].requirement) = 5
        /\ Report(c).errors # <<>>
        /\ ~HasFinding(Report(c).errors, "Longitud Insuficiente")

\* C7: when the tagger raises during a call, the call is answered by the one
\* response of status 500 that carries the message, no report is returned,
\* and the tagger has been invoked once.
C7_TaggingFaultSurfaces ==
    \A c \in DOMAIN pc :
        /\ tag_attempts[c] <= 1
        /\ exception[c] # "" =>
            /\ tag_attempts[c] = 1
            /\ \/ pc[c] = "raised" /\ response[c] = NoResponse
               \/ /\ pc[c] = "done"
                  /\ response[c] = [status_code |-> 500, detail |-> exception[c]]

\* A call whose first checks had recorded errors has been answered with the
\* internal error.
C7_Witness ==
    \E c \in DOMAIN pc :
        /\ pc[c] = "done"
        /\ exception[c] # ""
        /\ response[c].status_code = 500
        /\ heap[validation_result[c].errors] # <<>>

\* C8: without a tagger, no call invokes or loads one, no report holds a
\* 'Falta de Especificidad' error, and is_valid is decided by the length,
\* ambiguity and keyword checks.
C8_DegradedMode ==
    nlp = "None" =>
        /\ load_attempts = 1
        /\ \A c \in DOMAIN pc :
            /\ tag_attempts[c] = 0
            /\ exception[c] = ""
            /\ Returned(c) =>
                LET text == strip(request[c].requirement)
                    normalized == normalize_text(text)
                IN  /\ ~HasFinding(Report(c).errors, "Falta de Especificidad")
                    /\ Report(c).is_valid <=>
                        /\ WordCount(text) >= 5
                        /\ ambiguous_words_found(WEAK_WORDS, normalized) = <<>>
                        /\ has_keywords(select_keywords(request[c].is_functional,
                                                        FUNCTIONAL_KEYWORDS,
                                                        NON_FUNCTIONAL_KEYWORDS),
                                        normalized)

\* Without a tagger, a 3-word requirement with its keyword has been found
\* invalid on its length alone.
C8_Witness ==
    \E c \in DOMAIN pc :
        /\ nlp = "None"
        /\ Returned(c)
        /\ Types(Report(c).errors) = <<"Longitud Insuficiente">>

\* No two calls in flight hold the same list object.
NoSharedLists ==
    \A c, d \in DOMAIN pc :
        (c # d /\ pc[c] \notin {"idle", "preprocess"}
               /\ pc[d] \notin {"idle", "preprocess"})
            => {validation_result[c].errors, validation_result[c].suggestions}
                \cap {validation_result[d].errors, validation_result[d].suggestions}
                = {}

\* Every report returned is the report of the call run alone.
ReportsAsInIsolation ==
    \A c \in DOMAIN pc :
        Returned(c) => Report(c) = IsolatedReport(c, request[c], nlp, doc[c])

\* Calls with the same body and the same tagger answer return equal reports.
SameInputSameReport ==
    \A c, d \in DOMAIN pc :
        (Returned(c) /\ Returned(d) /\ request[c] = request[d] /\ doc[c] = doc[d])
            => Report(c) = Report(d)

\* C9: no step of any call changes the rule tables or the tagger reference;
\* under every interleaving each call returns the report it returns alone,
\* calls with the same input return equal reports, and no two reports share
\* a list.
C9_StatelessReentrant ==
    /\ [][tables' = tables /\ nlp' = nlp /\ load_attempts' = load_attempts]_vars
    /\ [](NoSharedLists /\ ReportsAsInIsolation /\ SameInputSameReport)

\* Two calls with the same body, in flight together, have both been
\* answered with a report that holds errors.
C9_Witness ==
    \E c, d \in DOMAIN pc :
        /\ c # d
        /\ Returned(c) /\ Returned(d)
        /\ request[c] = request[d]
        /\ doc[c] = doc[d]
        /\ Report(c).errors # <<>>
        /\ Report(c) = Report(d)

\* C10: the error types of a returned report are exactly the checks whose
\* own condition holds on the input, each once, in the order of the checks,
\* and the Ambigüedad error lists the matched weak words in table order.
C10_AllChecksRunInOrder ==
    \A c \in DOMAIN pc :
        Returned(c) =>
            LET text == strip(request[c].requirement)
                normalized == normalize_text(text)
                found == ambiguous_words_found(WEAK_WORDS, normalized)
                keywords == select_keywords(request[c].is_functional,
                                            FUNCTIONAL_KEYWORDS,
                                            NON_FUNCTIONAL_KEYWORDS)
                due(t) ==
                    CASE t = "Longitud Insuficiente" -> WordCount(text) < 5
                      [] t = "Ambigüedad" -> found # <<>>
                      [] t = "Ausencia de Palabras Clave" ->
                            ~has_keywords(keywords, normalized)
                      [] t = "Falta de Especificidad" ->
                            /\ nlp # "None"
                            /\ \/ ~(\E i \in 1..Len(doc[c]) : doc[c][i] = "VERB")
                               \/ Cardinality({i \in 1..Len(doc[c]) :
                                                  doc[c][i] = "NOUN"}) < 2
                errors == Report(c).errors
            IN  /\ Types(errors) = SelectSeq(ErrorOrder, due)
                /\ \A i \in 1..Len(errors) :
                      errors[i].type = "Ambigüedad" =>
                          errors[i].description
                              = AMBIGUITY_PREFIX \o join(COMMA_SPACE, found)

\* A report with all four errors, its Ambigüedad error listing two weak
\* words, has been returned.
C10_Witness ==
    \E c \in DOMAIN pc :
        /\ Returned(c)
        /\ Types(Report(c).errors) = ErrorOrder
        /\ Len(ambiguous_words_found(WEAK_WORDS,
                    normalize_text(request[c].requirement))) = 2
====
